---- MODULE Spec2Model ----
(***************************************************************************)
(* afch-logger (src/src/lib.rs): the marker scanner contains_warn, the     *)
(* streaming ErrorLogBuilder behind to_error_log, and Logger::log, which   *)
(* routes one record to the error or the standard stream.                  *)
(* Spec logs a single record; SpecConc logs two records from two threads,  *)
(* SpecInit is init_logger called by several callers, SpecScans is a run   *)
(* of consecutive contains_warn calls.                                     *)
(*                                                                         *)
(* A text is a sequence of characters; a character is a one-letter string. *)
(* The two substitute glyphs are characters outside ASCII and are written  *)
(* by their code points.                                                   *)
(***************************************************************************)
EXTENDS Naturals, Sequences, FiniteSets

VARIABLES
    level,       \* record.level() of the record being logged ("None" before)
    pc,          \* "idle" | "writing" (builder alive, fragments arriving) | "done"
    input,       \* the characters of the record's message consumed so far
    log,         \* ErrorLogBuilder.log
    warn,        \* ErrorLogBuilder.warn, the held characters (stale past warn_ptr)
    warn_ptr,    \* ErrorLogBuilder.warn_ptr
    split_held,  \* history: some write_str call was entered with warn_ptr > 0
    scan,        \* what contains_warn returned in the Warn arm
    stderr,      \* lines written by eprintln!
    stdout,      \* lines written by println!
    passes,      \* records logged from two threads: each thread's pass and its locals
    installed,   \* the log crate's global logger is set
    max_level,   \* the log crate's global maximum level
    inits,       \* init_logger calls: each caller's position and the results it got
    scans        \* consecutive contains_warn calls: the last call and the one before

vars == <<level, pc, input, log, warn, warn_ptr, split_held, scan, stderr, stdout,
          passes, installed, max_level, inits, scans>>

\* what the logging of a single record leaves alone
others == <<passes, installed, max_level, inits, scans>>

----------------------------------------------------------------------------
(* Bounds of the model *)

\* longest message, in characters
MaxLen == 5
\* longest fragment handed to one write_str call
MaxFragLen == 4
\* characters two concurrent passes consume together
MaxConcLen == 5
\* init_logger calls one caller makes
MaxInitCalls == 3
\* longest text of the consecutive scans
MaxScanLen == 4

\* the characters messages are drawn from: the marker's letters, some of them
\* in upper case as well, and one letter outside the marker
Alphabet == {"w", "W", "a", "r", "R", "n", "b"}

SeqsUpTo(n) == UNION {[1..k -> Alphabet] : k \in 0..n}
Texts == SeqsUpTo(MaxLen)

Min(a, b) == IF a <= b THEN a ELSE b

\* the threads that log at the same time
Threads == {1, 2}

\* the threads that call init_logger
Callers == {1, 2, 3}

\* the characters of the concurrent passes and of the consecutive scans
ConcAlphabet == {"w", "a", "R", "n"}
ScanAlphabet == {"w", "A", "r", "n"}
ScanTexts == UNION {[1..k -> ScanAlphabet] : k \in 0..MaxScanLen}

----------------------------------------------------------------------------
(* Characters *)

WARN == <<"w", "a", "r", "n">>

GlyphLowerR == "U+1D5CB"
GlyphUpperR == "U+1D5B1"

\* the character '\0' the held buffer is created with
NUL == "U+0000"

\* char::to_ascii_lowercase on the characters of the model; anything that is
\* not an ASCII upper-case letter (the glyphs included) is left alone
to_ascii_lowercase(c) ==
    CASE c = "W" -> "w"
      [] c = "A" -> "a"
      [] c = "R" -> "r"
      [] c = "N" -> "n"
      [] c = "B" -> "b"
      [] OTHER -> c

eq_ignore_ascii_case(a, b) == to_ascii_lowercase(a) = to_ascii_lowercase(b)

----------------------------------------------------------------------------
(* ErrorLogBuilder *)

NewBuilder == [log |-> <<>>, warn |-> <<NUL, NUL, NUL, NUL>>, warn_ptr |-> 0]

\* the glyph pushed for the third letter, chosen from the held character
Glyph_canonical(c) == GlyphLowerR
Glyph_lowercased(c) == IF c = "r" THEN GlyphLowerR ELSE "r"
Glyph(c) == IF c = "r" THEN GlyphLowerR ELSE GlyphUpperR

Match_canonical_held(b, ch) ==
    LET w == [b.warn EXCEPT ![b.warn_ptr + 1] = WARN[b.warn_ptr + 1]] IN
    IF b.warn_ptr = 3
    THEN [log |-> b.log \o <<w[1], w[2], Glyph(w[3]), w[4]>>,
          warn |-> w, warn_ptr |-> 0]
    ELSE [log |-> b.log, warn |-> w, warn_ptr |-> b.warn_ptr + 1]
\* the branch taken when ch matches WARN[warn_ptr]
Match(b, ch) ==
    LET w == [b.warn EXCEPT ![b.warn_ptr + 1] = ch] IN
    IF b.warn_ptr = 3
    THEN [log |-> b.log \o <<w[1], w[2], Glyph(w[3]), w[4]>>,
          warn |-> w, warn_ptr |-> 0]
    ELSE [log |-> b.log, warn |-> w, warn_ptr |-> b.warn_ptr + 1]

\* the branch taken when ch does not match WARN[warn_ptr]
Mismatch_no_flush(b, ch) ==
    [log |-> b.log \o <<ch>>, warn |-> b.warn, warn_ptr |-> 0]
Mismatch(b, ch) ==
    [log |-> b.log \o SubSeq(b.warn, 1, b.warn_ptr) \o <<ch>>,
     warn |-> b.warn, warn_ptr |-> 0]

\* the cursor is not reset when an occurrence completes; the index past the
\* marker that follows is a panic, after which nothing is written
write_char_no_reset(b, ch) ==
    IF b.warn_ptr > 3 THEN b
    ELSE IF eq_ignore_ascii_case(ch, WARN[b.warn_ptr + 1])
         THEN [Match(b, ch) EXCEPT !.warn_ptr = b.warn_ptr + 1]
         ELSE Mismatch(b, ch)

\* one turn of the loop of write_str
write_char(b, ch) ==
    IF eq_ignore_ascii_case(ch, WARN[b.warn_ptr + 1])
    THEN Match(b, ch)
    ELSE Mismatch(b, ch)

RECURSIVE write_chars(_, _, _)
write_chars(b, s, i) ==
    IF i > Len(s) THEN b ELSE write_chars(write_char(b, s[i]), s, i + 1)

\* the held characters, as build and Display emit them
Held(b) == SubSeq(b.warn, 1, b.warn_ptr)

write_str_flush_each(b, s) ==
    LET e == write_chars(b, s, 1) IN
    [log |-> e.log \o Held(e), warn |-> e.warn, warn_ptr |-> 0]
write_str(b, s) == write_chars(b, s, 1)

build_canonical(b) == b.log \o SubSeq(WARN, 1, b.warn_ptr)
build(b) == b.log \o Held(b)

\* fmt::Write::write_fmt: one write_str call per piece of the arguments
RECURSIVE write_fmt(_, _, _)
write_fmt(b, args, k) ==
    IF k > Len(args) THEN b ELSE write_fmt(write_str(b, args[k]), args, k + 1)

to_error_log(args) == build(write_fmt(NewBuilder, args, 1))

----------------------------------------------------------------------------
(* contains_warn *)

RECURSIVE scan_reset_only(_, _, _)
scan_reset_only(s, i, p) ==
    IF i > Len(s) THEN FALSE
    ELSE IF eq_ignore_ascii_case(s[i], WARN[p + 1])
         THEN IF p = 3 THEN TRUE ELSE scan_reset_only(s, i + 1, p + 1)
         ELSE scan_reset_only(s, i + 1, 0)
contains_warn_reset_only(s) == scan_reset_only(s, 1, 0)

\* the loop of contains_warn from character i on, with the cursor at p
RECURSIVE scan_from(_, _, _)
scan_from(s, i, p) ==
    IF i > Len(s) THEN FALSE
    ELSE IF eq_ignore_ascii_case(s[i], WARN[p + 1])
         THEN IF p = 3 THEN TRUE ELSE scan_from(s, i + 1, p + 1)
         ELSE scan_from(s, i + 1, p)

\* one turn of the loop of contains_warn with the cursor at p
scan_step(p, ch) ==
    IF eq_ignore_ascii_case(ch, WARN[p + 1])
    THEN IF p = 3 THEN [found |-> TRUE, warn_ptr |-> p]
                  ELSE [found |-> FALSE, warn_ptr |-> p + 1]
    ELSE [found |-> FALSE, warn_ptr |-> p]

\* the values the cursor has each time it indexes WARN, from character i on
RECURSIVE scan_cursors(_, _, _)
scan_cursors(s, i, p) ==
    IF i > Len(s) THEN <<>>
    ELSE <<p>> \o (LET r == scan_step(p, s[i]) IN
                   IF r.found THEN <<>> ELSE scan_cursors(s, i + 1, r.warn_ptr))

contains_warn(s) == scan_from(s, 1, 0)

\* the cursor a call starts with, whatever cursor p the call before ended with
scan_start_leaky(p) == p
scan_start(p) == 0

\* the loop of contains_warn from character i on: the result and the cursor
\* the call ends with
RECURSIVE scan_run(_, _, _)
scan_run(s, i, p) ==
    IF i > Len(s) THEN [found |-> FALSE, warn_ptr |-> p]
    ELSE LET r == scan_step(p, s[i]) IN
         IF r.found THEN r ELSE scan_run(s, i + 1, r.warn_ptr)

----------------------------------------------------------------------------
(* Logger::log *)

WarningPrefix == <<"w", "a", "r", "n", "i", "n", "g", ":", " ">>

\* a thread that has not logged yet; b, sp and found are the locals of its pass
NewPass ==
    [lvl |-> "None", pc |-> "idle", text |-> <<>>, b |-> NewBuilder,
     sp |-> 0, found |-> FALSE, line |-> <<>>, cut |-> FALSE]

Init ==
    /\ level = "None"
    /\ pc = "idle"
    /\ input = <<>>
    /\ log = NewBuilder.log
    /\ warn = NewBuilder.warn
    /\ warn_ptr = NewBuilder.warn_ptr
    /\ split_held = FALSE
    /\ scan = FALSE
    /\ stderr = <<>>
    /\ stdout = <<>>
    /\ passes = [t \in Threads |-> NewPass]
    /\ installed = FALSE
    /\ max_level = "Off"
    /\ inits = [t \in Callers |-> [pc |-> "idle", results |-> <<>>]]
    /\ scans = [text |-> <<>>, found |-> FALSE, warn_ptr |-> 0, called |-> FALSE,
                same |-> FALSE, prev_found |-> FALSE]

Builder == [log |-> log, warn |-> warn, warn_ptr |-> warn_ptr]

\* Level::Error: to_error_log creates the builder and write_fmt starts
LogError ==
    /\ pc = "idle"
    /\ level' = "Error"
    /\ pc' = "writing"
    /\ log' = NewBuilder.log
    /\ warn' = NewBuilder.warn
    /\ warn_ptr' = NewBuilder.warn_ptr
    /\ UNCHANGED <<input, split_held, scan, stderr, stdout>>
    /\ UNCHANGED others

\* the formatter hands the builder the next fragment of the message
WriteStr ==
    /\ pc = "writing"
    /\ \E s \in SeqsUpTo(Min(MaxFragLen, MaxLen - Len(input))) :
          LET b == write_str(Builder, s) IN
          /\ log' = b.log
          /\ warn' = b.warn
          /\ warn_ptr' = b.warn_ptr
          /\ input' = input \o s
    /\ split_held' = (split_held \/ warn_ptr > 0)
    /\ UNCHANGED <<level, pc, scan, stderr, stdout>>
    /\ UNCHANGED others

\* build borrowing the builder instead of consuming it
Build_borrowing ==
    /\ pc = "writing"
    /\ log' = build(Builder)
    /\ stderr' = Append(stderr, log')
    /\ UNCHANGED <<level, pc, input, warn, warn_ptr, split_held, scan, stdout>>
    /\ UNCHANGED others

\* the arguments are exhausted: build returns the string, eprintln! writes it
Build ==
    /\ pc = "writing"
    /\ log' = build(Builder)
    /\ stderr' = Append(stderr, log')
    /\ pc' = "done"
    /\ UNCHANGED <<level, input, warn, warn_ptr, split_held, scan, stdout>>
    /\ UNCHANGED others

\* Level::Warn
LogWarn ==
    /\ pc = "idle"
    /\ \E s \in Texts :
          /\ input' = s
          /\ scan' = contains_warn(s)
          /\ stderr' = Append(stderr, IF scan' THEN s ELSE WarningPrefix \o s)
    /\ level' = "Warn"
    /\ pc' = "done"
    /\ UNCHANGED <<log, warn, warn_ptr, split_held, stdout>>
    /\ UNCHANGED others

LogInfo_to_stderr ==
    /\ pc = "idle"
    /\ \E s \in Texts :
          /\ input' = s
          /\ stderr' = Append(stderr, s)
    /\ level' = "Info"
    /\ pc' = "done"
    /\ UNCHANGED <<log, warn, warn_ptr, split_held, scan, stdout>>
    /\ UNCHANGED others

LogInfo_transformed ==
    /\ pc = "idle"
    /\ \E s \in Texts :
          /\ input' = s
          /\ stdout' = Append(stdout, to_error_log(<<s>>))
    /\ level' = "Info"
    /\ pc' = "done"
    /\ UNCHANGED <<log, warn, warn_ptr, split_held, scan, stderr>>
    /\ UNCHANGED others

\* Level::Info
LogInfo ==
    /\ pc = "idle"
    /\ \E s \in Texts :
          /\ input' = s
          /\ stdout' = Append(stdout, s)
    /\ level' = "Info"
    /\ pc' = "done"
    /\ UNCHANGED <<log, warn, warn_ptr, split_held, scan, stderr>>
    /\ UNCHANGED others

\* Level::Debug and Level::Trace: the arm `_ => {}`
LogOther ==
    /\ pc = "idle"
    /\ \E lv \in {"Debug", "Trace"} : level' = lv
    /\ \E s \in Texts : input' = s
    /\ pc' = "done"
    /\ UNCHANGED <<log, warn, warn_ptr, split_held, scan, stderr, stdout>>
    /\ UNCHANGED others

Next ==
    \/ LogError
    \/ WriteStr
    \/ Build
    \/ LogWarn
    \/ LogInfo
    \/ LogOther

Spec == Init /\ [][Next]_vars

----------------------------------------------------------------------------
(* Records logged from two threads at the same time *)

single == <<level, pc, input, log, warn, warn_ptr, split_held, scan>>

\* the locals of thread t's pass
PassState_shared(ps, t) ==
    [ps[t] EXCEPT !.b = [@ EXCEPT !.warn_ptr = ps[1].b.warn_ptr], !.sp = ps[1].sp]
PassState(ps, t) == ps[t]

\* the pass of the other thread is under way and has consumed something
CutBy(ps, t) ==
    [u \in Threads |->
        IF u # t /\ ps[u].pc = "running" /\ Len(ps[u].text) > 0
        THEN [ps[u] EXCEPT !.cut = TRUE]
        ELSE ps[u]]

\* Logger::log is entered with an Error or a Warn record
ConcBegin(t) ==
    /\ passes[t].pc = "idle"
    /\ \E lv \in {"Error", "Warn"} :
          passes' = [passes EXCEPT ![t] = [NewPass EXCEPT !.lvl = lv, !.pc = "running"]]
    /\ UNCHANGED <<single, stderr, stdout, installed, max_level, inits, scans>>

\* the pass of thread t consumes the next character of its message: a turn
\* of the loop of write_str, or of contains_warn until it has returned
ConcChar(t) ==
    /\ passes[t].pc = "running"
    /\ Len(passes[1].text) + Len(passes[2].text) < MaxConcLen
    /\ \E c \in ConcAlphabet :
          LET me == PassState(passes, t)
              after ==
                IF me.lvl = "Error"
                THEN [me EXCEPT !.text = @ \o <<c>>, !.b = write_char(me.b, c)]
                ELSE IF me.found
                     THEN [me EXCEPT !.text = @ \o <<c>>]
                     ELSE LET r == scan_step(me.sp, c) IN
                          [me EXCEPT !.text = @ \o <<c>>,
                                     !.sp = r.warn_ptr, !.found = r.found]
          IN passes' = [CutBy(passes, t) EXCEPT ![t] = after]
    /\ UNCHANGED <<single, stderr, stdout, installed, max_level, inits, scans>>

\* the message is exhausted: the line is finalized and eprintln! writes it
ConcEmit(t) ==
    /\ passes[t].pc = "running"
    /\ LET me == PassState(passes, t)
           ln == IF me.lvl = "Error" THEN build(me.b)
                 ELSE IF me.found THEN me.text ELSE WarningPrefix \o me.text
       IN /\ passes' = [passes EXCEPT ![t] = [me EXCEPT !.line = ln, !.pc = "done"]]
          /\ stderr' = Append(stderr, ln)
    /\ UNCHANGED <<single, stdout, installed, max_level, inits, scans>>

NextConc ==
    \E t \in Threads :
        \/ ConcBegin(t)
        \/ ConcChar(t)
        \/ ConcEmit(t)

SpecConc == Init /\ [][NextConc]_vars

----------------------------------------------------------------------------
(* init_logger *)

\* log::set_logger: installs the logger unless one is installed already
set_logger(is_set) == [installed |-> TRUE, ok |-> ~is_set]

\* `let _ = log::set_logger(..)`: the error is dropped and the call goes on
InitSetLogger_ignoring(t) ==
    /\ inits[t].pc = "idle"
    /\ Len(inits[t].results) < MaxInitCalls
    /\ installed' = set_logger(installed).installed
    /\ inits' = [inits EXCEPT ![t].pc = "set"]
    /\ UNCHANGED <<single, stderr, stdout, passes, max_level, scans>>

\* log::set_logger(&LOGGER)?
InitSetLogger(t) ==
    /\ inits[t].pc = "idle"
    /\ Len(inits[t].results) < MaxInitCalls
    /\ LET r == set_logger(installed) IN
          /\ installed' = r.installed
          /\ inits' = [inits EXCEPT ![t] =
                          IF r.ok THEN [@ EXCEPT !.pc = "set"]
                                  ELSE [@ EXCEPT !.results = Append(@, "Err")]]
    /\ UNCHANGED <<single, stderr, stdout, passes, max_level, scans>>

\* log::set_max_level(log::LevelFilter::Info); Ok(())
InitSetMaxLevel(t) ==
    /\ inits[t].pc = "set"
    /\ max_level' = "Info"
    /\ inits' = [inits EXCEPT ![t] = [pc |-> "idle", results |-> Append(@.results, "Ok")]]
    /\ UNCHANGED <<single, stderr, stdout, passes, installed, scans>>

NextInit ==
    \E t \in Callers :
        \/ InitSetLogger(t)
        \/ InitSetMaxLevel(t)

SpecInit == Init /\ [][NextInit]_vars

----------------------------------------------------------------------------
(* Consecutive calls of contains_warn *)

ContainsWarnCall ==
    /\ \E s \in ScanTexts :
          LET r == scan_run(s, 1, scan_start(scans.warn_ptr)) IN
          scans' = [text |-> s, found |-> r.found, warn_ptr |-> r.warn_ptr,
                    called |-> TRUE, same |-> scans.called /\ s = scans.text,
                    prev_found |-> scans.found]
    /\ UNCHANGED <<single, stderr, stdout, passes, installed, max_level, inits>>

NextScans == ContainsWarnCall

SpecScans == Init /\ [][NextScans]_vars

----------------------------------------------------------------------------
(* What the statements below are written in *)

\* the marker occurs in s at position i: four adjacent characters that are
\* w, a, r, n up to ASCII case
MatchesAt(s, i) ==
    /\ i >= 1
    /\ i + 3 <= Len(s)
    /\ \A k \in 1..4 : eq_ignore_ascii_case(s[i + k - 1], WARN[k])

ContainsMarker(s) == \E i \in 1..Len(s) : MatchesAt(s, i)

\* the substitute the crate documents for the third letter
SubstituteFor(c) == IF c = "r" THEN GlyphLowerR ELSE IF c = "R" THEN GlyphUpperR ELSE c

IsGlyph(c) == c \in {GlyphLowerR, GlyphUpperR}

\* the builder's completion branch fires on character j of s
CompletedAt(s, j) ==
    /\ j >= 1
    /\ j <= Len(s)
    /\ write_str(NewBuilder, SubSeq(s, 1, j - 1)).warn_ptr = 3
    /\ eq_ignore_ascii_case(s[j], WARN[4])

ErrorDone == level = "Error" /\ pc = "done"
WarnDone == level = "Warn" /\ pc = "done"

\* the line the record put on the error stream
ErrLine == stderr[Len(stderr)]

LastChars(s, p) == SubSeq(s, Len(s) - p + 1, Len(s))

----------------------------------------------------------------------------
(* The scanner *)

\* C1: contains_warn returns true only for a text that holds w, a, r, n as
\* adjacent characters (up to ASCII case); letters of the marker that appear
\* in order but apart, as in "warbn", never make it return true.
C1_ScannerStrictSubstring ==
    WarnDone => (scan => ContainsMarker(input))

\* C2: contains_warn returns true for every text that holds the marker as
\* adjacent characters, wherever the occurrence lies and whatever precedes
\* it, a broken partial match such as the first w of "wwarn" included.
C2_ScannerFindsEveryOccurrence ==
    WarnDone => (ContainsMarker(input) => scan)

\* a scanned text whose occurrence follows a broken partial match ("wwarn")
C2_Witness ==
    /\ WarnDone
    /\ scan
    /\ Len(input) = 5
    /\ eq_ignore_ascii_case(input[1], WARN[1])
    /\ MatchesAt(input, 2)

----------------------------------------------------------------------------
(* The transform *)

\* C3: to_error_log rewrites every occurrence: wherever the marker occurs in
\* the message, the third letter of that occurrence is replaced in the
\* output (r by U+1D5CB, R by U+1D5B1), also when the first letter of the
\* occurrence is the character that broke a preceding partial match.
C3_EveryOccurrenceRewritten ==
    ErrorDone =>
        /\ Len(ErrLine) = Len(input)
        /\ \A i \in 1..Len(input) :
              MatchesAt(input, i) => ErrLine[i + 2] = SubstituteFor(input[i + 2])

\* C4: the line written for an Error record holds no occurrence of the
\* marker, so the host classifies it as Error.
C4_ErrorLineHasNoMarker ==
    ErrorDone => ~ContainsMarker(ErrLine)

\* C5: the line written for a Warn record holds an occurrence of the marker:
\* the message is written unchanged only when it holds the marker as
\* adjacent characters, and otherwise with the prefix "warning: ".
C5_WarnLineHasMarker ==
    WarnDone =>
        /\ ContainsMarker(ErrLine)
        /\ ErrLine = IF ContainsMarker(input) THEN input ELSE WarningPrefix \o input

\* C6: when the fragments' concatenation holds no occurrence of the marker,
\* the finalized output equals the concatenation character for character.
C6_IdentityWithoutMarker ==
    ErrorDone => (~ContainsMarker(input) => ErrLine = input)

\* "wabwa": an abandoned partial match, then the stream ends inside another
C6_Witness ==
    /\ ErrorDone
    /\ ~ContainsMarker(input)
    /\ Len(input) = 5
    /\ \A k \in 1..2 : /\ eq_ignore_ascii_case(input[k], WARN[k])
                       /\ eq_ignore_ascii_case(input[k + 3], WARN[k])
    /\ warn_ptr = 2
    /\ ErrLine = input

\* C7: however the text is split into fragments, one write_str call each,
\* the builder is in the state a single write_str call of the whole text
\* consumed so far leaves it in, and the finalized output is the output of
\* the whole text fed as one fragment.
C7_ChunkingInvariance ==
    /\ pc = "writing" => Builder = write_str(NewBuilder, input)
    /\ ErrorDone => ErrLine = to_error_log(<<input>>)

\* an occurrence fed in pieces, a call boundary inside it, and rewritten
C7_Witness ==
    /\ ErrorDone
    /\ split_held
    /\ Len(input) = 4
    /\ MatchesAt(input, 1)
    /\ ErrLine = <<input[1], input[2], SubstituteFor(input[3]), input[4]>>
    /\ ErrLine # input

\* C8: the transform changes a text exactly when the scanner reports the
\* marker in it.
C8_ScannerAgreesWithTransform ==
    ErrorDone => ((ErrLine # input) <=> contains_warn(input))

----------------------------------------------------------------------------
(* The builder's protocol and state *)

\* C11: a transform pass is: the builder created with warn_ptr 0 and an
\* empty log, then write_str calls, then build once; build takes the pass
\* to its end, and after it the builder is never written to or built again.
C11_FinalizeOnce ==
    /\ [][(pc = "idle" /\ pc' = "writing") => (log' = <<>> /\ warn_ptr' = 0)]_vars
    /\ [][(pc = "writing" /\ stderr' # stderr) =>
             (pc' = "done" /\ stderr' = Append(stderr, build(Builder)))]_vars
    /\ [][(level = "Error" /\ Len(stderr) > 0) =>
             UNCHANGED <<input, log, warn, warn_ptr, stderr>>]_vars
    /\ [](ErrorDone => Len(stderr) = 1)

\* several writes, then the one build
C11_Witness ==
    /\ ErrorDone
    /\ split_held
    /\ Len(input) = 5
    /\ Len(stderr) = 1

IsPrefix(s, t) == Len(s) <= Len(t) /\ SubSeq(t, 1, Len(s)) = s

\* what C12 states of the builder b that has consumed the text s
TransformStateOk(b, s) ==
    /\ b.warn_ptr \in 0..3
    /\ Len(Held(b)) = b.warn_ptr
    /\ b.warn_ptr <= Len(s)
    /\ Held(b) = LastChars(s, b.warn_ptr)
    /\ \A k \in 1..b.warn_ptr : eq_ignore_ascii_case(Held(b)[k], WARN[k])
    /\ Len(b.log) + b.warn_ptr = Len(s)
    /\ \A i \in 1..Len(s) :
          (b.log \o Held(b))[i] = IF CompletedAt(s, i + 1)
                                  THEN SubstituteFor(s[i])
                                  ELSE s[i]

\* C12: after every consumed character, fragment boundaries included, the
\* held buffer holds exactly warn_ptr characters, they are the last warn_ptr
\* characters consumed and match the first warn_ptr letters of the marker,
\* and log followed by them is the consumed text with glyphs only at the
\* third letter of the occurrences completed so far; log only ever grows
\* at its end.
C12_TransformStateInvariant ==
    /\ [](pc = "writing" =>
            /\ TransformStateOk(Builder, input)
            /\ \A k \in 0..Len(input) :
                  TransformStateOk(write_str(NewBuilder, SubSeq(input, 1, k)),
                                   SubSeq(input, 1, k)))
    /\ [][IsPrefix(log, log')]_vars

\* "WarnW" consumed over a fragment boundary: one occurrence out, W held
C12_Witness ==
    /\ pc = "writing"
    /\ split_held
    /\ Len(input) = 5
    /\ MatchesAt(input, 1)
    /\ warn_ptr = 1
    /\ warn[1] = "W"
    /\ input[5] = "W"
    /\ Len(log) = 4

\* C13: the builder's cursor is 0 when the pass starts, is within 0..3
\* whenever it indexes WARN or the held buffer, whatever the input and its
\* fragments, and is 0 again right after a completed occurrence; the
\* scanner's cursor starts at 0 and is within 0..3 at every index.
C13_CursorBounds ==
    /\ warn_ptr \in 0..3
    /\ (pc = "writing" /\ input = <<>>) => warn_ptr = 0
    /\ level = "Error" =>
          \A j \in 1..Len(input) :
             /\ write_str(NewBuilder, SubSeq(input, 1, j - 1)).warn_ptr \in 0..3
             /\ CompletedAt(input, j) =>
                   write_str(NewBuilder, SubSeq(input, 1, j)).warn_ptr = 0
    /\ WarnDone =>
          LET cs == scan_cursors(input, 1, 0) IN
          /\ Len(cs) <= Len(input)
          /\ Len(cs) > 0 => cs[1] = 0
          /\ \A k \in 1..Len(cs) : cs[k] \in 0..3

\* a character consumed right after a completed occurrence
C13_Witness ==
    /\ level = "Error"
    /\ pc = "writing"
    /\ Len(input) = 5
    /\ CompletedAt(input, 4)
    /\ write_str(NewBuilder, SubSeq(input, 1, 4)).warn_ptr = 0
    /\ warn_ptr = 1

----------------------------------------------------------------------------
(* Routing *)

\* C15: an Error or a Warn record puts exactly one line on the error stream
\* and nothing on the standard stream; an Info record puts exactly one line
\* on the standard stream and nothing on the error stream.
C15_StreamRouting ==
    /\ (pc = "done" /\ level \in {"Error", "Warn"}) =>
          (Len(stderr) = 1 /\ Len(stdout) = 0)
    /\ (pc = "done" /\ level = "Info") =>
          (Len(stdout) = 1 /\ Len(stderr) = 0)
    /\ pc # "done" => (stderr = <<>> /\ stdout = <<>>)

C15_Witness ==
    /\ pc = "done"
    /\ level = "Info"
    /\ Len(input) = 5
    /\ Len(stdout) = 1
    /\ stderr = <<>>

\* C16, as the claim states it: a record of level Info, Debug or Trace is
\* passed through with its message unchanged, without scan or rewrite.
C16_InfoAndLowerPassedThrough ==
    (pc = "done" /\ level \in {"Info", "Debug", "Trace"}) =>
        /\ stdout = <<input>>
        /\ stderr = <<>>

\* C16, amended: an Info record is written to the standard stream with its
\* message unchanged, without scan or rewrite; a Debug or Trace record is
\* not written at all.
C16_InfoPassedLowerDropped ==
    /\ (pc = "done" /\ level = "Info") =>
          /\ stdout = <<input>>
          /\ stderr = <<>>
          /\ Builder = NewBuilder
          /\ scan = FALSE
    /\ (pc = "done" /\ level \in {"Debug", "Trace"}) =>
          /\ stdout = <<>>
          /\ stderr = <<>>
          /\ Builder = NewBuilder
          /\ scan = FALSE

\* an Info record whose message holds the marker, written as it is
C16_Witness ==
    /\ pc = "done"
    /\ level = "Info"
    /\ MatchesAt(input, 1)
    /\ stdout = <<input>>

\* C19: a second pass of to_error_log over a line it produced rewrites
\* nothing.
C19_TransformIdempotent ==
    ErrorDone => to_error_log(<<ErrLine>>) = ErrLine

\* a line with an upper-case glyph in it, fed again
C19_Witness ==
    /\ ErrorDone
    /\ Len(input) = 5
    /\ MatchesAt(input, 2)
    /\ input[4] = "R"
    /\ ErrLine[4] = GlyphUpperR
    /\ to_error_log(<<ErrLine>>) = ErrLine

----------------------------------------------------------------------------
(* Several passes, several calls *)

\* the line Logger::log writes for a record logged alone
AloneLine(lvl, s) ==
    IF lvl = "Error" THEN to_error_log(<<s>>)
    ELSE IF contains_warn(s) THEN s ELSE WarningPrefix \o s

\* C14: when two records are logged at the same time, however the
\* per-character steps of the two passes interleave, each pass has the state
\* it has when its record is processed alone, and the line it writes is the
\* line written for that record alone.
C14_IndependentPasses ==
    \A t \in Threads :
        LET me == passes[t] IN
        /\ (me.pc = "running" /\ me.lvl = "Error") =>
              me.b = write_str(NewBuilder, me.text)
        /\ (me.pc = "running" /\ me.lvl = "Warn") =>
              me.found = contains_warn(me.text)
        /\ me.pc = "done" =>
              /\ me.line = AloneLine(me.lvl, me.text)
              /\ \E k \in 1..Len(stderr) : stderr[k] = me.line

\* an Error pass over "waRn" and a Warn pass, each cut by steps of the other
C14_Witness ==
    /\ passes[1].pc = "done"
    /\ passes[2].pc = "done"
    /\ passes[1].cut
    /\ passes[2].cut
    /\ passes[1].lvl = "Error"
    /\ passes[1].text = <<"w", "a", "R", "n">>
    /\ passes[1].line = <<"w", "a", GlyphUpperR, "n">>
    /\ passes[2].lvl = "Warn"
    /\ passes[2].text = <<"w">>
    /\ passes[2].line = WarningPrefix \o <<"w">>

\* the calls that returned Ok: caller and call number
OkCalls ==
    {c \in Callers \X (1..MaxInitCalls) :
        c[2] <= Len(inits[c[1]].results) /\ inits[c[1]].results[c[2]] = "Ok"}

\* C17: among the init_logger calls, a call that finds no logger installed
\* installs it, sets the maximum level to Info and returns Ok, and it is the
\* only one to return Ok; a call that finds a logger installed returns an
\* error and leaves the installed logger and the maximum level as they are.
C17_InstallOnce ==
    /\ [](Cardinality(OkCalls) <= 1)
    /\ [](\A t \in Callers :
             ((\E c \in OkCalls : c[1] = t) \/ inits[t].pc = "set") => installed)
    /\ [][\A t \in Callers :
             (inits[t].pc = "idle" /\ inits'[t] # inits[t] /\ installed) =>
                 /\ inits'[t] = [inits[t] EXCEPT !.results = Append(@, "Err")]
                 /\ UNCHANGED <<installed, max_level>>]_vars
    /\ [][\A t \in Callers :
             (inits[t].pc = "idle" /\ inits'[t] # inits[t] /\ ~installed) =>
                 /\ installed'
                 /\ inits'[t] = [inits[t] EXCEPT !.pc = "set"]]_vars
    /\ [][\A t \in Callers :
             (inits[t].pc = "set" /\ inits'[t] # inits[t]) =>
                 /\ max_level' = "Info"
                 /\ UNCHANGED installed
                 /\ inits'[t] = [pc |-> "idle",
                                 results |-> Append(inits[t].results, "Ok")]]_vars

\* one caller installed and then failed, the other failed
C17_Witness ==
    /\ installed
    /\ max_level = "Info"
    /\ inits[1].results = <<"Ok", "Err">>
    /\ inits[2].results = <<"Err">>
    /\ inits[3].results = <<>>

\* C18: every call of contains_warn returns what a scan of its text from
\* progress 0 returns, whatever was scanned before, and a call on the text
\* of the call before returns what that call returned.
C18_ScansIndependent ==
    scans.called =>
        /\ scans.found = contains_warn(scans.text)
        /\ scans.same => scans.found = scans.prev_found

\* "wAr"-like text scanned twice in a row: both calls end with the cursor at 3
C18_Witness ==
    /\ scans.called
    /\ scans.same
    /\ ~scans.found
    /\ scans.warn_ptr = 3

====
